---- MODULE Spec2Model ----
(***************************************************************************)
(* Funding projection engine of the reserve study generator: the           *)
(* FinancialAnalysis component of "App Docs/report-generation-system.tsx". *)
(*                                                                         *)
(* JavaScript numbers are modelled as exact rationals n/d extended with    *)
(* NaN, +Infinity and -Infinity.  For the inputs drawn below every         *)
(* intermediate value with a power-of-two denominator is computed exactly  *)
(* by IEEE doubles as well; other denominators are modelled in exact       *)
(* arithmetic.                                                             *)
(***************************************************************************)
EXTENDS Integers, Sequences, FiniteSets, TLC

\* ---------------------------------------------------------------------
\* Bounds of the model
\* ---------------------------------------------------------------------
MaxComponents == 2
MaxUsefulLife == 2
MaxRemainingHalves == 4
MaxCost == 2
MaxBalanceHalves == 2
MaxYears == 2

\* ---------------------------------------------------------------------
\* JavaScript numbers
\* ---------------------------------------------------------------------
Abs(x) == IF x < 0 THEN -x ELSE x

RECURSIVE GCD(_, _)
GCD(a, b) == IF b = 0 THEN a ELSE GCD(b, a % b)

\* the finite number n/d in lowest terms with a positive denominator
Q(n, d) ==
  LET s == IF d < 0 THEN -1 ELSE 1
      g == GCD(Abs(n), Abs(d))
  IN [k |-> "fin", n |-> (s * n) \div g, d |-> (s * d) \div g]

Int2Num(i) == [k |-> "fin", n |-> i, d |-> 1]
Zero == Int2Num(0)
Half == Q(1, 2)
NaN == [k |-> "nan", n |-> 0, d |-> 1]
PosInf == [k |-> "pinf", n |-> 0, d |-> 1]
NegInf == [k |-> "ninf", n |-> 0, d |-> 1]

IsFinite(a) == a.k = "fin"
IsInf(a) == a.k \in {"pinf", "ninf"}

\* sign of a non-NaN number: -1, 0 or 1
Sign(a) ==
  CASE a.k = "pinf" -> 1
    [] a.k = "ninf" -> -1
    [] OTHER -> IF a.n > 0 THEN 1 ELSE IF a.n < 0 THEN -1 ELSE 0

InfOfSign(s) == IF s > 0 THEN PosInf ELSE NegInf

\* unary minus
jsNeg(a) ==
  CASE a.k = "nan" -> NaN
    [] a.k = "pinf" -> NegInf
    [] a.k = "ninf" -> PosInf
    [] OTHER -> Q(-a.n, a.d)

\* a + b
jsAdd(a, b) ==
  CASE a.k = "nan" \/ b.k = "nan" -> NaN
    [] IsInf(a) /\ IsInf(b) -> IF a.k = b.k THEN a ELSE NaN
    [] IsInf(a) -> a
    [] IsInf(b) -> b
    [] OTHER -> Q(a.n * b.d + b.n * a.d, a.d * b.d)

\* a - b
jsSub(a, b) == jsAdd(a, jsNeg(b))

\* a * b
jsMul(a, b) ==
  CASE a.k = "nan" \/ b.k = "nan" -> NaN
    [] IsInf(a) \/ IsInf(b) ->
         IF Sign(a) * Sign(b) = 0 THEN NaN ELSE InfOfSign(Sign(a) * Sign(b))
    [] OTHER -> Q(a.n * b.n, a.d * b.d)

\* a / b ; a finite zero divisor is +0 (no input of the engine is -0)
jsDiv(a, b) ==
  CASE a.k = "nan" \/ b.k = "nan" -> NaN
    [] IsInf(a) /\ IsInf(b) -> NaN
    [] IsInf(a) -> InfOfSign(IF Sign(b) < 0 THEN -Sign(a) ELSE Sign(a))
    [] IsInf(b) -> Zero
    [] b.n = 0 -> IF a.n = 0 THEN NaN ELSE InfOfSign(Sign(a))
    [] OTHER -> Q(a.n * b.d, a.d * b.n)

\* a < b
jsLt(a, b) ==
  CASE a.k = "nan" \/ b.k = "nan" -> FALSE
    [] a.k = "pinf" -> FALSE
    [] b.k = "ninf" -> FALSE
    [] a.k = "ninf" -> TRUE
    [] b.k = "pinf" -> TRUE
    [] OTHER -> a.n * b.d < b.n * a.d

\* Math.max(a, b)
jsMax(a, b) ==
  CASE a.k = "nan" \/ b.k = "nan" -> NaN
    [] OTHER -> IF jsLt(a, b) THEN b ELSE a

\* Math.floor(a) ; \div rounds toward minus infinity
jsFloor(a) == IF IsFinite(a) THEN Int2Num(a.n \div a.d) ELSE a

\* Math.ceil(a)
jsCeil(a) == IF IsFinite(a) THEN Int2Num(-((-a.n) \div a.d)) ELSE a

\* ---------------------------------------------------------------------
\* Inputs
\* ---------------------------------------------------------------------
UsefulLives == {Int2Num(u) : u \in 0..MaxUsefulLife}
RemainingLives == {Q(h, 2) : h \in 0..MaxRemainingHalves}
ReplacementCosts == {Int2Num(c) : c \in 0..MaxCost}
StartingBalances == {Q(h, 2) : h \in 0..MaxBalanceHalves}
ProjectionYears == 1..MaxYears
Goals == {"baseline", "threshold", "fullyFunded"}

Component == [usefulLife : UsefulLives, remainingLife : RemainingLives,
              replacementCost : ReplacementCosts]

ComponentLists == UNION {[1..n -> Component] : n \in 0..MaxComponents}

\* ---------------------------------------------------------------------
\* State
\* ---------------------------------------------------------------------
VARIABLES
  components,       \* prop: the component inventory
  startingBalance,  \* prop
  annualContribution, \* prop
  projectionYears,  \* prop
  financialData,    \* useState: {startingBalance, annualContribution, selectedGoal, projectionYears}
  projections,      \* useState: {yearlyData, fundingGoals}
  effectPending,    \* the [components, financialData] effect is scheduled
  onUpdateFinancials, \* prop callback: the record of its latest call, if any
  run,              \* locals of the last calculateProjections call
  projectData,      \* useState of ReportGenerationSystem: the sections validated
  reportFormat,     \* useState: the selected report formats, in click order
  isGenerating,     \* useState
  error,            \* useState: null, the missing-information message or a generator error
  generation,       \* the generateReport call in flight: its stage and its reportFormat
  invoked,          \* the report generators called so far
  componentData,    \* useState of ReserveStudyGenerator: the components added
  newComponent,     \* useState: the component form
  errorMsg,         \* useState
  clock,            \* the value Date.now() returns
  serviceData,      \* the argument of ReportGenerationService.validateReportData
  serviceResult,    \* what the call returned or threw
  status,           \* useState of ReportController: idle, generating, complete, error
  progress,         \* useState
  controllerError,  \* useState error of ReportController: null or err.message
  selectedFormats,  \* useState
  controllerRun     \* ReportController's generateReport call in flight: its selectedFormats and its place in the loop

analysisVars == <<components, startingBalance, annualContribution, projectionYears,
                  financialData, projections, effectPending, onUpdateFinancials,
                  run>>

reportVars == <<projectData, reportFormat, isGenerating, error, generation, invoked>>

formVars == <<componentData, newComponent, errorMsg, clock>>

serviceVars == <<serviceData, serviceResult>>

controllerVars == <<status, progress, controllerError, selectedFormats, controllerRun>>

\* the state of the components an action does not belong to
exceptAnalysis == <<reportVars, formVars, serviceVars, controllerVars>>

exceptReport == <<analysisVars, formVars, serviceVars, controllerVars>>

exceptForm == <<analysisVars, reportVars, serviceVars, controllerVars>>

exceptService == <<analysisVars, reportVars, formVars, controllerVars>>

exceptController == <<analysisVars, reportVars, formVars, serviceVars>>

vars == <<components, startingBalance, annualContribution, projectionYears,
          financialData, projections, effectPending, onUpdateFinancials, run,
          projectData, reportFormat, isGenerating, error, generation, invoked,
          componentData, newComponent, errorMsg, clock,
          serviceData, serviceResult,
          status, progress, controllerError, selectedFormats, controllerRun>>

\* ---------------------------------------------------------------------
\* ReportGenerationSystem: values, validation and report generation
\* ---------------------------------------------------------------------
\* JavaScript values other than numbers: undefined, and a string by its length
Undefined == [k |-> "undefined", n |-> 0, d |-> 1]

Str(len) == [k |-> "str", n |-> len, d |-> 1]

\* null, a plain object by its fields, an array by its items
Null == [k |-> "null"]

Obj(fields) == [k |-> "obj", fields |-> fields]

Arr(items) == [k |-> "arr", items |-> items]

\* !value: undefined, null, NaN, 0 and '' are falsy, everything else is truthy
jsNot(value) ==
  \/ value.k \in {"undefined", "null", "nan"}
  \/ value.k = "fin" /\ value.n = 0
  \/ value.k = "str" /\ value.n = 0

\* Object.entries(requiredFields), in insertion order
Sections == <<"propertyInfo", "components", "financials">>

requiredFields ==
  [propertyInfo |-> <<"name", "address", "constructionDate", "buildingCount">>,
   components |-> <<"name", "category", "quantity", "usefulLife", "remainingLife",
                    "replacementCost", "condition">>,
   financials |-> <<"startingBalance", "annualContribution", "projectionYears">>]

\* the three message templates pushed on missingFields
MissingSection(section) ==
  [kind |-> "section", field |-> "", section |-> section, item |-> 0]

MissingItemField(field, section, index) ==
  [kind |-> "item", field |-> field, section |-> section, item |-> index + 1]

MissingObjectField(field, section) ==
  [kind |-> "field", field |-> field, section |-> section, item |-> 0]

\* fields.forEach(field => { if (!object[field]) missingFields.push(...) });
\* index is the forEach index of the item, -1 for a section that is an object
RECURSIVE FieldsLoop(_, _, _, _, _, _)
FieldsLoop(object, fields, j, section, index, missingFields) ==
  IF j > Len(fields) THEN missingFields
  ELSE LET pushed == IF index < 0
                     THEN MissingObjectField(fields[j], section)
                     ELSE MissingItemField(fields[j], section, index)
       IN FieldsLoop(object, fields, j + 1, section, index,
                     IF jsNot(object.fields[fields[j]])
                     THEN Append(missingFields, pushed)
                     ELSE missingFields)

\* projectData[section].forEach((item, index) => ...)
RECURSIVE ItemsLoop(_, _, _, _, _)
ItemsLoop(items, index, fields, section, missingFields) ==
  IF ~(index < Len(items)) THEN missingFields
  ELSE ItemsLoop(items, index + 1, fields, section,
                 FieldsLoop(items[index + 1], fields, 1, section, index,
                            missingFields))

\* for (const [section, fields] of Object.entries(requiredFields))
RECURSIVE SectionsLoop(_, _, _)
SectionsLoop(data, s, missingFields) ==
  IF s > Len(Sections) THEN missingFields
  ELSE LET section == Sections[s]
           fields == requiredFields[section]
       IN SectionsLoop(data, s + 1,
            IF jsNot(data[section])
            THEN Append(missingFields, MissingSection(section))
            ELSE IF data[section].k = "arr"
                 THEN ItemsLoop(data[section].items, 0, fields, section,
                                missingFields)
                 ELSE FieldsLoop(data[section], fields, 1, section, -1,
                                 missingFields))

\* variant: the scan stops at the first problem it finds
validateDataCompleteness_FirstOnly(data) ==
  LET missingFields == SectionsLoop(data, 1, <<>>)
  IN [isComplete |-> Len(missingFields) = 0,
      missingFields |-> SubSeq(missingFields, 1, 1)]

validateDataCompleteness(data) ==
  LET missingFields == SectionsLoop(data, 1, <<>>)
  IN [isComplete |-> Len(missingFields) = 0, missingFields |-> missingFields]

\* serviceIntegration.js: required.filter(key => !financials[key]); the
\* method throws 'Missing financial data: ...' when the result is not empty
RECURSIVE FilterMissing(_, _, _)
FilterMissing(object, required, j) ==
  IF j > Len(required) THEN <<>>
  ELSE IF jsNot(object.fields[required[j]])
       THEN <<required[j]>> \o FilterMissing(object, required, j + 1)
       ELSE FilterMissing(object, required, j + 1)

validateFinancials(financials) ==
  LET missing ==
        FilterMissing(financials,
                      <<"startingBalance", "annualContribution", "projectionYears">>, 1)
  IN [throws |-> Len(missing) > 0, missing |-> missing]

\* the values of the error state
NoError == [kind |-> "null", missingFields |-> <<>>]

MissingInformation(missingFields) ==
  [kind |-> "missing", missingFields |-> missingFields]

GeneratorError == [kind |-> "generator", missingFields |-> <<>>]

\* useState initial values
InitialProjectData ==
  [propertyInfo |-> Null, components |-> Arr(<<>>), financials |-> Null]

ReportFormats == {"word", "excel", "photos"}

NotGenerating == [stage |-> "idle", reportFormat |-> <<>>]

Includes(array, key) == \E i \in 1..Len(array) : array[i] = key

\* prev.filter(f => f !== key)
Filter(array, key) == SelectSeq(array, LAMBDA f : f # key)

\* the component as first rendered, with nothing loaded and nothing selected
ReportInit ==
  /\ projectData = InitialProjectData
  /\ reportFormat = <<>>
  /\ isGenerating = FALSE
  /\ error = NoError
  /\ generation = NotGenerating
  /\ invoked = {}

\* ---------------------------------------------------------------------
\* ReserveStudyGenerator: the component form
\* ---------------------------------------------------------------------
\* the required fields of the form, all text inputs
EmptyForm ==
  [name |-> "", quantity |-> "", useful_life |-> "", remaining_life |-> "",
   replacement_cost |-> ""]

\* the component form as first rendered, nothing added yet
FormInit ==
  /\ componentData = <<>>
  /\ newComponent = EmptyForm
  /\ errorMsg = ""
  /\ clock = 0

\* ReportGenerationService before validateReportData is called
NotCalled == [called |-> FALSE]

ServiceInit ==
  /\ serviceData = [projectInfo |-> Undefined, components |-> Undefined,
                    financials |-> Undefined, media |-> Undefined]
  /\ serviceResult = NotCalled

\* the error state of ReportController: null, or the message of what was caught
NoControllerError == [isNull |-> TRUE, message |-> ""]

ControllerError(message) == [isNull |-> FALSE, message |-> message]

\* no generateReport call of ReportController in flight
NoControllerRun == [active |-> FALSE, formats |-> <<>>, index |-> 0, threw |-> FALSE]

\* ReportController as first rendered
ControllerInit ==
  /\ status = "idle"
  /\ progress = Zero
  /\ controllerError = NoControllerError
  /\ selectedFormats = <<>>
  /\ controllerRun = NoControllerRun

\* ---------------------------------------------------------------------
\* calculateProjections and its helpers
\* ---------------------------------------------------------------------
\* Array(projectionYears).fill(0)
ZeroVector(n) == [i \in 1..n |-> Zero]

\* variant: the replacement year rounded up instead of down
ReplacementYear_Ceil(component) == jsCeil(component.remainingLife)

\* const replacementYear = Math.floor(component.remainingLife)
ReplacementYear(component) == jsFloor(component.remainingLife)

\* components.forEach(... yearlyExpenditures[replacementYear] += cost ...)
\* (index y of the array is position y + 1 of the sequence)
RECURSIVE ScheduleLoop(_, _, _, _)
ScheduleLoop(comps, j, yearlyExpenditures, years) ==
  IF j > Len(comps) THEN yearlyExpenditures
  ELSE LET replacementYear == ReplacementYear(comps[j])
           next == IF jsLt(replacementYear, Int2Num(years))
                   THEN [yearlyExpenditures EXCEPT ![replacementYear.n + 1] =
                            jsAdd(@, comps[j].replacementCost)]
                   ELSE yearlyExpenditures
       IN ScheduleLoop(comps, j + 1, next, years)

YearlyExpenditures(comps, years) == ScheduleLoop(comps, 1, ZeroVector(years), years)

\* variant: the accrued share is kept at zero for a component whose remaining
\* life exceeds its useful life
FullyFundedTerm_Floored(component) ==
  LET effectiveAge == jsSub(component.usefulLife, component.remainingLife)
  IN jsMax(Zero,
           jsMul(component.replacementCost, jsDiv(effectiveAge, component.usefulLife)))

\* variant: the remaining share of the life instead of the consumed share
FullyFundedTerm_Remaining(component) ==
  jsMul(component.replacementCost,
        jsDiv(component.remainingLife, component.usefulLife))

\* replacementCost * (effectiveAge / usefulLife)
FullyFundedTerm(component) ==
  LET effectiveAge == jsSub(component.usefulLife, component.remainingLife)
  IN jsMul(component.replacementCost, jsDiv(effectiveAge, component.usefulLife))

\* components.reduce((sum, component) => sum + term, 0)
RECURSIVE FullyFundedLoop(_, _, _)
FullyFundedLoop(comps, j, sum) ==
  IF j > Len(comps) THEN sum
  ELSE FullyFundedLoop(comps, j + 1, jsAdd(sum, FullyFundedTerm(comps[j])))

FullyFundedBalance(comps) == FullyFundedLoop(comps, 1, Zero)

\* JavaScript is strict: the values an iteration assigns are computed before
\* the next iteration starts; v is evaluated, then e
Strict(v, e) == IF v = v THEN e ELSE e

RECURSIVE BaselineLoop(_, _, _, _, _)
BaselineLoop(expenditures, i, balance, minRequired, years) ==
  IF i > Len(expenditures) THEN minRequired
  ELSE LET b == jsSub(balance, expenditures[i])
           m == IF jsLt(b, Zero)
                THEN jsMax(minRequired, jsDiv(jsNeg(b), Int2Num(years)))
                ELSE minRequired
       IN Strict(<<b, m>>, BaselineLoop(expenditures, i + 1, b, m, years))

\* variant: the requirement starts from the contribution selected after the
\* previous run instead of from zero
calculateBaselineFunding_Carried(expenditures, fd, years) ==
  jsCeil(BaselineLoop(expenditures, 1, fd.startingBalance, fd.annualContribution,
                      years))

\* variant: the amortised shortfall rounded down instead of up
calculateBaselineFunding_Floor(expenditures, fd, years) ==
  jsFloor(BaselineLoop(expenditures, 1, fd.startingBalance, Zero, years))

calculateBaselineFunding(expenditures, fd, years) ==
  jsCeil(BaselineLoop(expenditures, 1, fd.startingBalance, Zero, years))

\* variant: the first year's expenditure is added to the amount to raise
calculateThresholdFunding_Expenditure(expenditures, fullyFundedBalance, fd, years) ==
  LET targetBalance == jsMul(fullyFundedBalance, Half)
  IN jsCeil(jsDiv(jsAdd(jsSub(targetBalance, fd.startingBalance), expenditures[1]),
                  Int2Num(years)))

\* variant: a negative threshold contribution is raised to zero
calculateThresholdFunding_Clamped(expenditures, fullyFundedBalance, fd, years) ==
  LET targetBalance == jsMul(fullyFundedBalance, Half)
  IN jsMax(Zero,
           jsCeil(jsDiv(jsSub(targetBalance, fd.startingBalance), Int2Num(years))))

calculateThresholdFunding(expenditures, fullyFundedBalance, fd, years) ==
  LET targetBalance == jsMul(fullyFundedBalance, Half)
  IN jsCeil(jsDiv(jsSub(targetBalance, fd.startingBalance), Int2Num(years)))

\* variant: the quotient rounded to the nearest unit, Math.round
calculateFullyFundedFunding_Round(expenditures, fullyFundedBalance, fd, years) ==
  jsFloor(jsAdd(jsDiv(jsSub(fullyFundedBalance, fd.startingBalance), Int2Num(years)),
                Half))

\* variant: the quotient rounded down
calculateFullyFundedFunding_Floor(expenditures, fullyFundedBalance, fd, years) ==
  jsFloor(jsDiv(jsSub(fullyFundedBalance, fd.startingBalance), Int2Num(years)))

\* variant: a negative fully-funded contribution is raised to zero
calculateFullyFundedFunding_Clamped(expenditures, fullyFundedBalance, fd, years) ==
  jsMax(Zero,
        jsCeil(jsDiv(jsSub(fullyFundedBalance, fd.startingBalance), Int2Num(years))))

calculateFullyFundedFunding(expenditures, fullyFundedBalance, fd, years) ==
  jsCeil(jsDiv(jsSub(fullyFundedBalance, fd.startingBalance), Int2Num(years)))

YearRow(year, expenditures, baselineBalance, thresholdBalance, fullyFundedBalance) ==
  [year |-> year, expenditures |-> expenditures,
   baselineBalance |-> baselineBalance,
   thresholdBalance |-> thresholdBalance,
   fullyFundedBalance |-> fullyFundedBalance]

\* variant: a balance that would go negative is recorded as zero
StepBalance_Clamped(balance, contribution, expense) ==
  jsMax(Zero, jsSub(jsAdd(balance, contribution), expense))

\* one turn of the for loop: the new balance of one policy
StepBalance(balance, contribution, expense) ==
  jsSub(jsAdd(balance, contribution), expense)

\* the for loop; contributions and balances are records keyed by policy
RECURSIVE ProjectionLoop(_, _, _, _, _, _)
ProjectionLoop(expenditures, annual, year, years, balance, yearlyData) ==
  IF ~(year < years) THEN yearlyData
  ELSE LET b == StepBalance(balance.baseline, annual.baseline, expenditures[year + 1])
           t == StepBalance(balance.threshold, annual.threshold, expenditures[year + 1])
           f == StepBalance(balance.fullyFunded, annual.fullyFunded,
                            expenditures[year + 1])
           rows == Append(yearlyData,
                          YearRow(year + 1, expenditures[year + 1], b, t, f))
       IN Strict(rows,
                 ProjectionLoop(expenditures, annual, year + 1, years,
                                [baseline |-> b, threshold |-> t, fullyFunded |-> f],
                                rows))

\* variant: the opening balance earns one year of interest when the financial
\* parameters carry an interest rate (in percent)
generateYearlyProjections_Interest(expenditures, baseline, threshold, fullyFunded, fd, years) ==
  LET opening == IF "interestRate" \in DOMAIN fd
                 THEN jsAdd(fd.startingBalance,
                            jsDiv(jsMul(fd.startingBalance, fd.interestRate),
                                  Int2Num(100)))
                 ELSE fd.startingBalance
  IN ProjectionLoop(expenditures,
                    [baseline |-> baseline, threshold |-> threshold,
                     fullyFunded |-> fullyFunded],
                    0, years,
                    [baseline |-> opening, threshold |-> opening,
                     fullyFunded |-> opening],
                    <<>>)

generateYearlyProjections(expenditures, baseline, threshold, fullyFunded, fd, years) ==
  ProjectionLoop(expenditures,
                 [baseline |-> baseline, threshold |-> threshold,
                  fullyFunded |-> fullyFunded],
                 0, years,
                 [baseline |-> fd.startingBalance, threshold |-> fd.startingBalance,
                  fullyFunded |-> fd.startingBalance],
                 <<>>)

\* the locals and the result of calculateProjections for one render
Projection(comps, fd, years) ==
  LET yearlyExpenditures == YearlyExpenditures(comps, years)
      fullyFundedBalance == FullyFundedBalance(comps)
      baselineAnnual == calculateBaselineFunding(yearlyExpenditures, fd, years)
      thresholdAnnual ==
        calculateThresholdFunding(yearlyExpenditures, fullyFundedBalance, fd, years)
      fullyFundedAnnual ==
        calculateFullyFundedFunding(yearlyExpenditures, fullyFundedBalance, fd, years)
  IN [yearlyExpenditures |-> yearlyExpenditures,
      fullyFundedBalance |-> fullyFundedBalance,
      yearlyData |-> generateYearlyProjections(yearlyExpenditures, baselineAnnual,
                                                thresholdAnnual, fullyFundedAnnual,
                                                fd, years),
      fundingGoals |-> [baseline |-> baselineAnnual,
                        threshold |-> thresholdAnnual,
                        fullyFunded |-> fullyFundedAnnual]]

\* ---------------------------------------------------------------------
\* The component as a state machine
\* ---------------------------------------------------------------------
NoRun == [done |-> FALSE, components |-> <<>>, projectionYears |-> 1,
          startingBalance |-> Zero, yearlyExpenditures |-> <<>>,
          fullyFundedBalance |-> Zero]

\* first render of FinancialAnalysis: both useState initialisers, effect scheduled
Init ==
  /\ components \in ComponentLists
  /\ startingBalance \in StartingBalances
  /\ annualContribution = Zero
  /\ projectionYears \in ProjectionYears
  /\ financialData = [startingBalance |-> startingBalance,
                      annualContribution |-> annualContribution,
                      selectedGoal |-> "baseline",
                      projectionYears |-> projectionYears]
  /\ projections = [yearlyData |-> <<>>,
                    fundingGoals |-> [baseline |-> Zero, threshold |-> Zero,
                                      fullyFunded |-> Zero]]
  /\ effectPending = TRUE
  /\ onUpdateFinancials = <<>>
  /\ run = NoRun
  /\ ReportInit
  /\ FormInit
  /\ ServiceInit
  /\ ControllerInit

\* useEffect(() => calculateProjections(), [components, financialData])
calculateProjections ==
  /\ effectPending
  /\ LET p == Projection(components, financialData, projectionYears)
     IN /\ projections' = [yearlyData |-> p.yearlyData,
                           fundingGoals |-> p.fundingGoals]
        /\ run' = [done |-> TRUE, components |-> components,
                   projectionYears |-> projectionYears,
                   startingBalance |-> financialData.startingBalance,
                   yearlyExpenditures |-> p.yearlyExpenditures,
                   fullyFundedBalance |-> p.fullyFundedBalance]
  /\ effectPending' = FALSE
  /\ UNCHANGED <<components, startingBalance, annualContribution,
                 projectionYears, financialData, onUpdateFinancials>>
  /\ UNCHANGED exceptAnalysis

\* variant: the parent is handed the goal with the contribution of the
\* previous selection
handleFundingGoalChange_Stale(goal) ==
  /\ ~effectPending
  /\ financialData' = [financialData EXCEPT
                         !.selectedGoal = goal,
                         !.annualContribution = projections.fundingGoals[goal]]
  /\ effectPending' = TRUE
  /\ onUpdateFinancials' = <<[financialData EXCEPT !.selectedGoal = goal]>>
  /\ UNCHANGED <<components, startingBalance, annualContribution,
                 projectionYears, projections, run>>
  /\ UNCHANGED exceptAnalysis

\* click on a funding goal card, after the pending effects have been flushed
handleFundingGoalChange(goal) ==
  /\ ~effectPending
  /\ financialData' = [financialData EXCEPT
                         !.selectedGoal = goal,
                         !.annualContribution = projections.fundingGoals[goal]]
  /\ effectPending' = TRUE
  /\ onUpdateFinancials' =
       <<[financialData EXCEPT
            !.selectedGoal = goal,
            !.annualContribution = projections.fundingGoals[goal]]>>
  /\ UNCHANGED <<components, startingBalance, annualContribution,
                 projectionYears, projections, run>>
  /\ UNCHANGED exceptAnalysis

Next ==
  \/ calculateProjections
  \/ \E goal \in Goals : handleFundingGoalChange(goal)

Spec == Init /\ [][Next]_vars

\* ---------------------------------------------------------------------
\* Arithmetic used to state the properties
\* ---------------------------------------------------------------------
\* a <= b on numbers that are not NaN
Leq(a, b) == ~jsLt(b, a)

\* the integer c with c - 1 < num/den <= c, for den > 0
IsCeilOf(c, num, den) == (c - 1) * den < num /\ num <= c * den

\* floor(remainingLife) = i, stated without Math.floor
FallsInYear(component, i) ==
  /\ i * component.remainingLife.d <= component.remainingLife.n
  /\ component.remainingLife.n < (i + 1) * component.remainingLife.d

RECURSIVE SumCostOver(_, _)
SumCostOver(comps, S) ==
  IF S = {} THEN Zero
  ELSE LET j == CHOOSE j \in S : TRUE
       IN jsAdd(comps[j].replacementCost, SumCostOver(comps, S \ {j}))

\* the components of a list whose replacement falls in year index i
DueIn(comps, i) == {j \in DOMAIN comps : FallsInYear(comps[j], i)}

RunInput == [startingBalance |-> run.startingBalance]

\* an inventory of the data model: usefulLife > 0 and remainingLife <= usefulLife
ValidInventory(comps) ==
  \A j \in DOMAIN comps :
    /\ jsLt(Zero, comps[j].usefulLife)
    /\ Leq(comps[j].remainingLife, comps[j].usefulLife)

\* ---------------------------------------------------------------------
\* C1
\* ---------------------------------------------------------------------
\* C1: the expenditure vector has length projectionYears and slot i holds
\* exactly the sum of replacementCost over the components with
\* floor(remainingLife) = i; components at or beyond the horizon add nothing.
C1_ExpenditureSchedule ==
  run.done =>
    /\ Len(run.yearlyExpenditures) = run.projectionYears
    /\ \A i \in 0..(run.projectionYears - 1) :
         run.yearlyExpenditures[i + 1] =
           SumCostOver(run.components, DueIn(run.components, i))

\* two components with a fractional remaining life share a year inside the
\* horizon and both cost something
C1_Witness ==
  /\ run.done
  /\ Len(run.components) = 2
  /\ \E i \in 0..(run.projectionYears - 1) :
       /\ DueIn(run.components, i) = {1, 2}
       /\ run.components[1].remainingLife.d = 2
       /\ run.components[1].replacementCost # Zero
       /\ run.components[2].replacementCost # Zero
       /\ run.yearlyExpenditures[i + 1] # run.components[1].replacementCost

\* ---------------------------------------------------------------------
\* C2
\* ---------------------------------------------------------------------
\* C2: with the baseline contribution held constant, the simulated
\* baselineBalance is never negative in any year of the horizon (stated for
\* the inventories of the data model, where no NaN can arise).
C2_BaselineNeverNegative ==
  (run.done /\ ValidInventory(run.components)) =>
    \A i \in 1..Len(projections.yearlyData) :
      ~jsLt(projections.yearlyData[i].baselineBalance, Zero)

\* ---------------------------------------------------------------------
\* C3
\* ---------------------------------------------------------------------
RECURSIVE PrefixSum(_, _)
PrefixSum(expenditures, y) ==
  IF y = 0 THEN Zero ELSE jsAdd(PrefixSum(expenditures, y - 1), expenditures[y])

\* max(0, -balance) after year y of the simulation without contributions
ShortfallAt(expenditures, start, y) ==
  jsMax(Zero, jsNeg(jsSub(start, PrefixSum(expenditures, y))))

\* the largest shortfall over all years
MaxShortfall(expenditures, start) ==
  LET S == {ShortfallAt(expenditures, start, y) : y \in 1..Len(expenditures)}
  IN CHOOSE m \in S : \A x \in S : Leq(x, m)

\* C3: the baseline contribution is ceil(M / projectionYears), M the maximum
\* over the years of max(0, -balance) in the simulation without contributions.
C3_BaselineFormula ==
  run.done =>
    LET M == MaxShortfall(run.yearlyExpenditures, run.startingBalance)
        c == projections.fundingGoals.baseline
    IN /\ IsFinite(c) /\ c.d = 1
       /\ IsCeilOf(c.n, M.n, M.d * run.projectionYears)

\* a positive shortfall that the horizon does not divide evenly
C3_Witness ==
  /\ run.done
  /\ LET M == MaxShortfall(run.yearlyExpenditures, run.startingBalance)
     IN /\ jsLt(Zero, M)
        /\ jsDiv(M, Int2Num(run.projectionYears)).d > 1
        /\ projections.fundingGoals.baseline # Zero

\* ---------------------------------------------------------------------
\* C4
\* ---------------------------------------------------------------------
BalanceBefore(field, i) ==
  IF i = 1 THEN run.startingBalance ELSE projections.yearlyData[i - 1][field]

FollowsRecurrence(field, goal) ==
  \A i \in 1..Len(projections.yearlyData) :
    projections.yearlyData[i][field] =
      jsSub(jsAdd(BalanceBefore(field, i), projections.fundingGoals[goal]),
            run.yearlyExpenditures[i])

\* C4: yearlyData has projectionYears rows, row i has year i + 1 and the
\* expenditure of slot i, and every policy's balance is the previous balance
\* plus the contribution minus the expenditure, unrounded and unclamped.
C4_TrajectoryRecurrence ==
  run.done =>
    /\ Len(projections.yearlyData) = run.projectionYears
    /\ \A i \in 1..Len(projections.yearlyData) :
         /\ projections.yearlyData[i].year = i
         /\ projections.yearlyData[i].expenditures = run.yearlyExpenditures[i]
    /\ FollowsRecurrence("baselineBalance", "baseline")
    /\ FollowsRecurrence("thresholdBalance", "threshold")
    /\ FollowsRecurrence("fullyFundedBalance", "fullyFunded")

\* a two-year trajectory with a negative and a fractional balance
C4_Witness ==
  /\ run.done
  /\ Len(projections.yearlyData) = 2
  /\ jsLt(projections.yearlyData[1].baselineBalance, Zero)
  /\ projections.yearlyData[2].baselineBalance.d = 2
  /\ IsFinite(projections.yearlyData[2].thresholdBalance)

\* ---------------------------------------------------------------------
\* C5
\* ---------------------------------------------------------------------
\* the share of its cost a component has accrued, usefulLife = 0 counting
\* as fully depreciated
ClampedTerm(component) ==
  IF component.usefulLife = Zero THEN component.replacementCost
  ELSE jsMul(component.replacementCost,
             jsDiv(jsSub(component.usefulLife, component.remainingLife),
                   component.usefulLife))

RECURSIVE ClampedSum(_, _)
ClampedSum(comps, j) ==
  IF j = 0 THEN Zero ELSE jsAdd(ClampedSum(comps, j - 1), ClampedTerm(comps[j]))

\* C5: a component with usefulLife = 0 adds exactly its replacementCost to
\* the fully-funded balance, and the balance stays a finite number.
C5_FullyFundedClamp ==
  run.done =>
    /\ IsFinite(run.fullyFundedBalance)
    /\ run.fullyFundedBalance = ClampedSum(run.components, Len(run.components))

\* ---------------------------------------------------------------------
\* C6
\* ---------------------------------------------------------------------
\* cost * (usefulLife - remainingLife) / usefulLife as a fraction of integers
TermNum(c) ==
  c.replacementCost.n *
    (c.usefulLife.n * c.remainingLife.d - c.remainingLife.n * c.usefulLife.d)
TermDen(c) == c.replacementCost.d * c.remainingLife.d * c.usefulLife.n

RECURSIVE ProductOfDens(_, _)
ProductOfDens(comps, j) ==
  IF j = 0 THEN 1 ELSE ProductOfDens(comps, j - 1) * TermDen(comps[j])

\* the sum of the terms of the first j components, over the common denominator D
RECURSIVE SumOverDen(_, _, _)
SumOverDen(comps, j, D) ==
  IF j = 0 THEN 0
  ELSE SumOverDen(comps, j - 1, D) + TermNum(comps[j]) * (D \div TermDen(comps[j]))

AllUsefulLivesPositive(comps) ==
  \A j \in DOMAIN comps : jsLt(Zero, comps[j].usefulLife)

\* C6: with every usefulLife > 0 the fully-funded balance is the sum over all
\* components, those beyond the horizon included, of
\* replacementCost * (usefulLife - remainingLife) / usefulLife; it is a
\* function of the inventory alone.
C6_FullyFundedFormula ==
  (run.done /\ AllUsefulLivesPositive(run.components)) =>
    LET D == ProductOfDens(run.components, Len(run.components))
        f == run.fullyFundedBalance
    IN /\ IsFinite(f)
       /\ f.n * D = f.d * SumOverDen(run.components, Len(run.components), D)

\* an inventory with a component inside and a component beyond the horizon,
\* both partly depreciated, and a positive starting balance
C6_Witness ==
  /\ run.done
  /\ Len(run.components) = 2
  /\ AllUsefulLivesPositive(run.components)
  /\ DueIn(run.components, 0) = {1}
  /\ ~jsLt(ReplacementYear(run.components[2]), Int2Num(run.projectionYears))
  /\ TermNum(run.components[1]) > 0
  /\ TermNum(run.components[2]) > 0
  /\ jsLt(Zero, run.startingBalance)
  /\ run.fullyFundedBalance.d > 1

\* ---------------------------------------------------------------------
\* C7
\* ---------------------------------------------------------------------
\* c = ceil((share * f - s) / years) for finite f and s, share = 1/shareDen;
\* a balance that is not finite passes its kind on to the contribution
IsAmortisedContribution(c, f, s, shareDen, years) ==
  IF IsFinite(f)
  THEN /\ IsFinite(c) /\ c.d = 1
       /\ IsCeilOf(c.n, f.n * s.d - shareDen * f.d * s.n,
                   shareDen * f.d * s.d * years)
  ELSE c.k = f.k

ExpenditureVectors(years) == [1..years -> ReplacementCosts]

\* C7: the threshold contribution is
\* ceil((0.5 * fullyFundedBalance - startingBalance) / projectionYears)
\* whatever the expenditure vector is.
C7_ThresholdFormula ==
  run.done =>
    /\ IsAmortisedContribution(projections.fundingGoals.threshold,
                               run.fullyFundedBalance, run.startingBalance,
                               2, run.projectionYears)
    /\ \A e \in ExpenditureVectors(run.projectionYears) :
         calculateThresholdFunding(e, run.fullyFundedBalance, RunInput,
                                   run.projectionYears)
           = projections.fundingGoals.threshold

\* a fractional quotient and an expenditure in the first year
C7_Witness ==
  /\ run.done
  /\ IsFinite(run.fullyFundedBalance)
  /\ jsDiv(jsSub(jsMul(run.fullyFundedBalance, Half), run.startingBalance),
           Int2Num(run.projectionYears)).d > 1
  /\ run.yearlyExpenditures[1] # Zero
  /\ projections.fundingGoals.threshold # Zero

\* ---------------------------------------------------------------------
\* C8
\* ---------------------------------------------------------------------
\* C8: the fully-funded contribution is
\* ceil((fullyFundedBalance - startingBalance) / projectionYears).
C8_FullyFundedFormula ==
  run.done =>
    IsAmortisedContribution(projections.fundingGoals.fullyFunded,
                            run.fullyFundedBalance, run.startingBalance,
                            1, run.projectionYears)

\* a quotient with a fractional part of one or three quarters and a positive
\* contribution
C8_Witness ==
  /\ run.done
  /\ IsFinite(run.fullyFundedBalance)
  /\ run.projectionYears = 2
  /\ jsDiv(jsSub(run.fullyFundedBalance, run.startingBalance),
           Int2Num(run.projectionYears)).d = 4
  /\ jsLt(Zero, projections.fundingGoals.fullyFunded)

\* ---------------------------------------------------------------------
\* C9
\* ---------------------------------------------------------------------
\* C9: when fullyFundedBalance > startingBalance the fully-funded
\* contribution is at least the threshold contribution.
C9_PolicyOrdering ==
  (run.done /\ jsLt(run.startingBalance, run.fullyFundedBalance)) =>
    Leq(projections.fundingGoals.threshold, projections.fundingGoals.fullyFunded)

\* a fully-funded balance above the starting balance, the two contributions
\* differing
C9_Witness ==
  /\ run.done
  /\ jsLt(run.startingBalance, run.fullyFundedBalance)
  /\ jsLt(projections.fundingGoals.threshold, projections.fundingGoals.fullyFunded)

\* ---------------------------------------------------------------------
\* C10
\* ---------------------------------------------------------------------
\* C10: for every valid input the contributions are ordered
\* baseline <= threshold <= fullyFunded.
C10_ManualOrdering ==
  (run.done /\ ValidInventory(run.components)) =>
    /\ Leq(projections.fundingGoals.baseline, projections.fundingGoals.threshold)
    /\ Leq(projections.fundingGoals.threshold, projections.fundingGoals.fullyFunded)

\* ---------------------------------------------------------------------
\* C11
\* ---------------------------------------------------------------------
\* C11: with the threshold contribution applied every year, thresholdBalance
\* is at least half of the fully-funded balance in every projected year
\* (stated for the inventories of the data model).
C11_ThresholdKeepsHalf ==
  (run.done /\ ValidInventory(run.components)) =>
    \A i \in 1..Len(projections.yearlyData) :
      Leq(jsMul(run.fullyFundedBalance, Half),
          projections.yearlyData[i].thresholdBalance)

\* ---------------------------------------------------------------------
\* C12
\* ---------------------------------------------------------------------
AllZero(seq) == \A i \in 1..Len(seq) : seq[i] = Zero

DefaultProjectionYears == 30

\* 'Roof - Flat, TPO': lifespan 25, remainingLife 11, replacementCost 448800
ScenarioComponent ==
  [usefulLife |-> Int2Num(25), remainingLife |-> Int2Num(11),
   replacementCost |-> Int2Num(448800)]

\* starting_reserve_balance 143858.40
ScenarioBalance == Q(14385840, 100)

\* first render with the example component or none, the example balance or
\* none, and every horizon up to the default one
InitScenario ==
  /\ components \in {<<>>, <<ScenarioComponent>>}
  /\ startingBalance \in {Zero, ScenarioBalance}
  /\ annualContribution = Zero
  /\ projectionYears \in 1..DefaultProjectionYears
  /\ financialData = [startingBalance |-> startingBalance,
                      annualContribution |-> annualContribution,
                      selectedGoal |-> "baseline",
                      projectionYears |-> projectionYears]
  /\ projections = [yearlyData |-> <<>>,
                    fundingGoals |-> [baseline |-> Zero, threshold |-> Zero,
                                      fullyFunded |-> Zero]]
  /\ effectPending = TRUE
  /\ onUpdateFinancials = <<>>
  /\ run = NoRun
  /\ ReportInit
  /\ FormInit
  /\ ServiceInit
  /\ ControllerInit

SpecScenario == InitScenario /\ [][Next]_vars

IsScenarioRun ==
  /\ run.done
  /\ run.components = <<ScenarioComponent>>
  /\ run.projectionYears = DefaultProjectionYears
  /\ run.startingBalance = ScenarioBalance

IsProjectionRun == effectPending /\ ~effectPending'

\* the run that starts now has the components, startingBalance and
\* projectionYears of the run before it
SameInputsAsLastRun ==
  /\ run.done
  /\ components = run.components
  /\ financialData.startingBalance = run.startingBalance
  /\ projectionYears = run.projectionYears

ExceedsTargetBy(s, f, shareDen, years) ==
  s.n * shareDen * f.d - f.n * s.d >= years * shareDen * f.d * s.d

\* the policy's contribution is the unclamped quotient rounded up, and when
\* the starting balance is at least `years` units above the target it is
\* negative and the first simulated balance is startingBalance plus that
\* negative contribution minus the first expenditure
IsUnflooredPolicy(goal, field, shareDen) ==
  LET c == projections.fundingGoals[goal]
  IN /\ IsAmortisedContribution(c, run.fullyFundedBalance, run.startingBalance,
                                shareDen, run.projectionYears)
     /\ ExceedsTargetBy(run.startingBalance, run.fullyFundedBalance, shareDen,
                        run.projectionYears) =>
          /\ c.k = "fin" /\ c.n < 0
          /\ FollowsRecurrence(field, goal)
          /\ projections.yearlyData[1][field] =
               jsSub(jsAdd(run.startingBalance, c), run.yearlyExpenditures[1])
          /\ jsLt(projections.yearlyData[1][field],
                  jsSub(run.startingBalance, run.yearlyExpenditures[1]))

\* C15: the threshold and fullyFunded contributions are returned as computed,
\* with no floor at zero: when startingBalance exceeds the policy's target by
\* at least projectionYears units the contribution is strictly negative and
\* the policy's trajectory is simulated with that negative contribution.
C15_NoFloor ==
  (run.done /\ IsFinite(run.fullyFundedBalance)) =>
    /\ IsUnflooredPolicy("threshold", "thresholdBalance", 2)
    /\ IsUnflooredPolicy("fullyFunded", "fullyFundedBalance", 1)

\* a non-empty inventory whose starting balance is a horizon's worth of units
\* above the fully funded balance: both contributions negative, and the
\* fully-funded balance falls in a year without expenditure
C15_Witness ==
  /\ run.done
  /\ run.components # <<>>
  /\ IsFinite(run.fullyFundedBalance)
  /\ ExceedsTargetBy(run.startingBalance, run.fullyFundedBalance, 1,
                     run.projectionYears)
  /\ jsLt(projections.fundingGoals.threshold, Zero)
  /\ jsLt(projections.fundingGoals.fullyFunded, Zero)
  /\ run.yearlyExpenditures[1] = Zero
  /\ jsLt(projections.yearlyData[1].fullyFundedBalance, run.startingBalance)

\* ---------------------------------------------------------------------
\* C16
\* ---------------------------------------------------------------------
\* interest rates in percent: none, the form's default '3.0', the example's 3.05
InterestRates == {Zero, Int2Num(3), Q(305, 100)}

AccountingMethods == {"Pooled", "Straight-Line"}

\* contributions a financial record may carry when a run starts
OtherContributions == {Int2Num(-1), Int2Num(1)}

\* the financial parameters of the last run with the fields the engine is
\* claimed not to read replaced
FinancialParameters(contribution, goal, rate, method) ==
  [startingBalance |-> run.startingBalance,
   annualContribution |-> contribution,
   selectedGoal |-> goal,
   projectionYears |-> run.projectionYears,
   interestRate |-> rate,
   accountingMethod |-> method]

\* parameter records that differ from one another in the interest rate only,
\* in the contribution (and the policy it came from) only, or in the
\* accounting method only
VariedParameters ==
  {FinancialParameters(Zero, "baseline", rate, "Pooled") : rate \in InterestRates}
  \cup {FinancialParameters(c, "threshold", Zero, "Pooled") : c \in OtherContributions}
  \cup {FinancialParameters(Zero, "baseline", Zero, m) : m \in AccountingMethods}

IsGoalChange == ~effectPending /\ effectPending'

\* C20: a call of handleFundingGoalChange leaves financialData with one of
\* the three policies selected and with that policy's contribution from
\* projections.fundingGoals, keeps startingBalance and projectionYears (in
\* the record and as props) and the projections, and hands onUpdateFinancials
\* one record with the same selectedGoal and annualContribution.
C20_GoalSetsContribution ==
  [][IsGoalChange =>
       \E g \in Goals :
         /\ financialData'.selectedGoal = g
         /\ financialData'.annualContribution = projections.fundingGoals[g]
         /\ financialData'.startingBalance = financialData.startingBalance
         /\ financialData'.projectionYears = financialData.projectionYears
         /\ startingBalance' = startingBalance
         /\ projectionYears' = projectionYears
         /\ projections' = projections
         /\ Len(onUpdateFinancials') = 1
         /\ onUpdateFinancials'[1].selectedGoal = g
         /\ onUpdateFinancials'[1].annualContribution =
              projections.fundingGoals[g]
         /\ onUpdateFinancials'[1].startingBalance = financialData.startingBalance
         /\ onUpdateFinancials'[1].projectionYears = financialData.projectionYears]_vars

\* the threshold policy has just been picked, and its contribution is
\* neither zero nor the baseline's
C20_Witness ==
  /\ effectPending
  /\ run.done
  /\ onUpdateFinancials # <<>>
  /\ financialData.selectedGoal = "threshold"
  /\ financialData.annualContribution = projections.fundingGoals.threshold
  /\ onUpdateFinancials[1].annualContribution = projections.fundingGoals.threshold
  /\ projections.fundingGoals.threshold # Zero
  /\ projections.fundingGoals.threshold # projections.fundingGoals.baseline

\* ---------------------------------------------------------------------
\* ReportGenerationSystem as a state machine
\* ---------------------------------------------------------------------
\* bounds of the project data: items of the components array, and required
\* fields that are not filled in
MaxItems == 2

MaxDefects == 2

\* required fields that hold a number; the others hold text
NumericFields ==
  {"buildingCount", "quantity", "usefulLife", "remainingLife", "replacementCost",
   "startingBalance", "annualContribution", "projectionYears"}

\* a field that is filled in, and one that holds 0 or ''
FilledValue(field) == IF field \in NumericFields THEN Int2Num(1) ELSE Str(1)

EmptyValue(field) == IF field \in NumericFields THEN Zero ELSE Str(0)

\* a required field that is not filled in is absent, or holds 0 or ''
DefectKinds == {"undefined", "empty"}

FieldSet(section) ==
  {requiredFields[section][j] : j \in 1..Len(requiredFields[section])}

\* a field of an object: <<section, index of the item or -1, field>>
SlotsOf(section, index) == {<<section, index, field>> : field \in FieldSet(section)}

RECURSIVE SubsetsUpTo(_, _)
SubsetsUpTo(S, k) ==
  IF k = 0 THEN {{}}
  ELSE LET smaller == SubsetsUpTo(S, k - 1)
       IN smaller \cup {p \cup {slot} : p \in smaller, slot \in S}

\* an object of a section with the chosen fields absent or empty
LoadedObject(section, index, defects, kinds) ==
  Obj([field \in FieldSet(section) |->
         IF <<section, index, field>> \in defects
         THEN IF kinds[<<section, index, field>>] = "undefined"
              THEN Undefined
              ELSE EmptyValue(field)
         ELSE FilledValue(field)])

LoadedProjectData(hasPropertyInfo, hasComponents, hasFinancials, count, defects, kinds) ==
  [propertyInfo |-> IF hasPropertyInfo
                    THEN LoadedObject("propertyInfo", -1, defects, kinds)
                    ELSE Null,
   components |-> IF hasComponents
                  THEN Arr([i \in 1..count |->
                              LoadedObject("components", i - 1, defects, kinds)])
                  ELSE Null,
   financials |-> IF hasFinancials
                  THEN LoadedObject("financials", -1, defects, kinds)
                  ELSE Null]

\* FinancialAnalysis is not part of this component: its state stays as built
AnalysisIdle ==
  /\ components = <<>>
  /\ startingBalance = Zero
  /\ annualContribution = Zero
  /\ projectionYears = 1
  /\ financialData = [startingBalance |-> Zero, annualContribution |-> Zero,
                      selectedGoal |-> "baseline", projectionYears |-> 1]
  /\ projections = [yearlyData |-> <<>>,
                    fundingGoals |-> [baseline |-> Zero, threshold |-> Zero,
                                      fullyFunded |-> Zero]]
  /\ effectPending = FALSE
  /\ onUpdateFinancials = <<>>
  /\ run = NoRun

\* the component with project data loaded: any section may be null, the
\* components array has up to MaxItems items, and up to MaxDefects required
\* fields are absent or empty (the useState default is one of these)
InitReport ==
  /\ \E hasPropertyInfo \in BOOLEAN, hasComponents \in BOOLEAN,
        hasFinancials \in BOOLEAN, count \in 0..MaxItems :
       /\ hasComponents \/ count = 0
       /\ LET slots ==
                (IF hasPropertyInfo THEN SlotsOf("propertyInfo", -1) ELSE {})
                \cup (IF hasFinancials THEN SlotsOf("financials", -1) ELSE {})
                \cup UNION {SlotsOf("components", i) : i \in 0..(count - 1)}
          IN \E defects \in SubsetsUpTo(slots, MaxDefects) :
               \E kinds \in [defects -> DefectKinds] :
                 projectData = LoadedProjectData(hasPropertyInfo, hasComponents,
                                                 hasFinancials, count, defects, kinds)
  /\ reportFormat = <<>>
  /\ isGenerating = FALSE
  /\ error = NoError
  /\ generation = NotGenerating
  /\ invoked = {}
  /\ AnalysisIdle
  /\ FormInit
  /\ ServiceInit
  /\ ControllerInit

\* click on a report format card
toggleFormat(key) ==
  /\ reportFormat' = IF Includes(reportFormat, key)
                     THEN Filter(reportFormat, key)
                     ELSE Append(reportFormat, key)
  /\ UNCHANGED <<projectData, isGenerating, error, generation, invoked>>
  /\ UNCHANGED exceptReport

\* variant: the reports are started whatever the validation says
generateReport_Unchecked ==
  /\ ~isGenerating
  /\ Len(reportFormat) # 0
  /\ LET validation == validateDataCompleteness(projectData)
     IN error' = IF ~validation.isComplete
                 THEN MissingInformation(validation.missingFields)
                 ELSE NoError
  /\ isGenerating' = TRUE
  /\ generation' = [stage |-> "word", reportFormat |-> reportFormat]
  /\ UNCHANGED <<projectData, reportFormat, invoked>>
  /\ UNCHANGED exceptReport

\* click on 'Generate Reports' (disabled while generating or with no format
\* selected): generateReport up to its first report
generateReport ==
  /\ ~isGenerating
  /\ Len(reportFormat) # 0
  /\ LET validation == validateDataCompleteness(projectData)
     IN IF ~validation.isComplete
        THEN /\ error' = MissingInformation(validation.missingFields)
             /\ UNCHANGED <<isGenerating, generation>>
        ELSE /\ isGenerating' = TRUE
             /\ error' = NoError
             /\ generation' = [stage |-> "word", reportFormat |-> reportFormat]
  /\ UNCHANGED <<projectData, reportFormat, invoked>>
  /\ UNCHANGED exceptReport

\* variant: the catch block reports the error and leaves the flag set
Caught_StillGenerating ==
  /\ error' = GeneratorError
  /\ isGenerating' = TRUE
  /\ generation' = NotGenerating

\* catch (err) { setError(...); setIsGenerating(false); }
Caught ==
  /\ error' = GeneratorError
  /\ isGenerating' = FALSE
  /\ generation' = NotGenerating

\* if (reportFormat.includes('word')) await generateSIRSReport(projectData);
\* the section helpers it calls are defined nowhere in the file, so the call
\* may return or throw
generateSIRSReport ==
  /\ generation.stage = "word"
  /\ IF Includes(generation.reportFormat, "word")
     THEN /\ invoked' = invoked \cup {"word"}
          /\ \/ /\ generation' = [generation EXCEPT !.stage = "excel"]
                /\ UNCHANGED <<error, isGenerating>>
             \/ Caught
     ELSE /\ generation' = [generation EXCEPT !.stage = "excel"]
          /\ UNCHANGED <<error, isGenerating, invoked>>
  /\ UNCHANGED <<projectData, reportFormat>>
  /\ UNCHANGED exceptReport

\* if (reportFormat.includes('excel')) await generateFinancialReport(projectData);
\* it relies on XLSX and on generateFundingProjections: it may return or throw
generateFinancialReport ==
  /\ generation.stage = "excel"
  /\ IF Includes(generation.reportFormat, "excel")
     THEN /\ invoked' = invoked \cup {"excel"}
          /\ \/ /\ generation' = [generation EXCEPT !.stage = "photos"]
                /\ UNCHANGED <<error, isGenerating>>
             \/ Caught
     ELSE /\ generation' = [generation EXCEPT !.stage = "photos"]
          /\ UNCHANGED <<error, isGenerating, invoked>>
  /\ UNCHANGED <<projectData, reportFormat>>
  /\ UNCHANGED exceptReport

\* if (reportFormat.includes('photos')) await generatePhotoReport(projectData);
\* setIsGenerating(false); the photo report has an empty body and returns
generatePhotoReport ==
  /\ generation.stage = "photos"
  /\ invoked' = IF Includes(generation.reportFormat, "photos")
                THEN invoked \cup {"photos"}
                ELSE invoked
  /\ isGenerating' = FALSE
  /\ generation' = NotGenerating
  /\ UNCHANGED <<projectData, reportFormat, error>>
  /\ UNCHANGED exceptReport

NextReport ==
  \/ \E key \in ReportFormats : toggleFormat(key)
  \/ generateReport
  \/ generateSIRSReport
  \/ generateFinancialReport
  \/ generatePhotoReport

SpecReport == InitReport /\ [][NextReport]_vars

\* ---------------------------------------------------------------------
\* C17
\* ---------------------------------------------------------------------
\* how many entries of a list equal a descriptor
Count(list, descriptor) ==
  Cardinality({i \in 1..Len(list) : list[i] = descriptor})

\* a required field with no value
IsAbsent(value) == value.k \in {"undefined", "null"}

\* the problems of the data, and the descriptor each must have: a section
\* that is null, a required field absent from a section that is an object,
\* a required field absent from an item of a section that is an array
ExpectedDescriptors(data) ==
  {MissingSection(Sections[s]) :
     s \in {t \in 1..Len(Sections) : data[Sections[t]].k = "null"}}
  \cup UNION {{MissingObjectField(field, Sections[s]) :
                 field \in {f \in FieldSet(Sections[s]) :
                              IsAbsent(data[Sections[s]].fields[f])}} :
              s \in {t \in 1..Len(Sections) : data[Sections[t]].k = "obj"}}
  \cup UNION {UNION {{MissingItemField(field, Sections[s], index - 1) :
                        field \in {f \in FieldSet(Sections[s]) :
                                     IsAbsent(data[Sections[s]].items[index].fields[f])}} :
                     index \in 1..Len(data[Sections[s]].items)} :
              s \in {t \in 1..Len(Sections) : data[Sections[t]].k = "arr"}}

\* C17: validateDataCompleteness lists exactly one descriptor for every null
\* section and for every absent required field of every object section and of
\* every item of an array section, whatever came before it in the scan;
\* isComplete is false when there is such a problem, and is true exactly when
\* the list is empty; the message generateReport shows carries the same list.
C17_ValidationCollectsAll ==
  LET validation == validateDataCompleteness(projectData)
  IN /\ \A descriptor \in ExpectedDescriptors(projectData) :
          Count(validation.missingFields, descriptor) = 1
     /\ ExpectedDescriptors(projectData) # {} => ~validation.isComplete
     /\ validation.isComplete <=> validation.missingFields = <<>>
     /\ error.kind = "missing" =>
          \A descriptor \in ExpectedDescriptors(projectData) :
            Count(error.missingFields, descriptor) = 1

\* the error shown after a click lists a null section and two fields absent
\* from the second item of the components array
C17_Witness ==
  /\ error.kind = "missing"
  /\ Len(error.missingFields) = 3
  /\ Cardinality(ExpectedDescriptors(projectData)) = 3
  /\ error.missingFields[1].kind = "section"
  /\ error.missingFields[2].kind = "item"
  /\ error.missingFields[2].item = 2
  /\ error.missingFields[3].item = 2

\* ---------------------------------------------------------------------
\* C18
\* ---------------------------------------------------------------------
\* C18: while validation reports a missing field, isGenerating is never true,
\* no generateReport call is in flight, no report generator (Word, Excel,
\* photo) has been invoked, and the only error generateReport sets is the
\* message built from the whole list the validation collected.
C18_NoWorkOnInvalidInput ==
  LET validation == validateDataCompleteness(projectData)
  IN ~validation.isComplete =>
       /\ ~isGenerating
       /\ generation = NotGenerating
       /\ invoked = {}
       /\ error \in {NoError, MissingInformation(validation.missingFields)}

\* all three formats are selected, 'Generate Reports' was clicked on data
\* with two problems, and the error lists both
C18_Witness ==
  /\ Len(reportFormat) = 3
  /\ error.kind = "missing"
  /\ Len(error.missingFields) = 2
  /\ error.missingFields = validateDataCompleteness(projectData).missingFields
  /\ ~isGenerating
  /\ invoked = {}

\* ---------------------------------------------------------------------
\* C19
\* ---------------------------------------------------------------------
Range(list) == {list[i] : i \in 1..Len(list)}

\* every required field of the object other than `field` is filled in
OthersPresent(object, section, field) ==
  \A other \in FieldSet(section) \ {field} : ~jsNot(object.fields[other])

\* C19: a financial record with startingBalance = 0 and a component with
\* remainingLife = 0, their other required fields present, get no
\* missing-field descriptor from validateDataCompleteness, and
\* validateFinancials does not throw for the financial record.
C19_ZeroIsValid ==
  LET validation == validateDataCompleteness(projectData)
  IN /\ ( /\ projectData.financials.k = "obj"
          /\ projectData.financials.fields["startingBalance"] = Zero
          /\ OthersPresent(projectData.financials, "financials", "startingBalance") )
        => /\ MissingObjectField("startingBalance", "financials")
                \notin Range(validation.missingFields)
           /\ ~validateFinancials(projectData.financials).throws
     /\ projectData.components.k = "arr" =>
          \A index \in 1..Len(projectData.components.items) :
            ( /\ projectData.components.items[index].fields["remainingLife"] = Zero
              /\ OthersPresent(projectData.components.items[index], "components",
                               "remainingLife") )
            => MissingItemField("remainingLife", "components", index - 1)
                 \notin Range(validation.missingFields)

\* ---------------------------------------------------------------------
\* C23
\* ---------------------------------------------------------------------
\* the baseline balance of the last projected year
LastBaselineBalance == projections.yearlyData[run.projectionYears].baselineBalance

\* C23: the baseline balance of the last projected year is >= 0, and when
\* the simulation without contributions has a positive shortfall it is
\* strictly less than projectionYears.
C23_BaselineEndBalance ==
  run.done =>
    /\ Leq(Zero, LastBaselineBalance)
    /\ jsLt(Zero, MaxShortfall(run.yearlyExpenditures, run.startingBalance)) =>
         jsLt(LastBaselineBalance, Int2Num(run.projectionYears))

\* a shortfall over two years that the rounded-up contribution overshoots
C23_Witness ==
  /\ run.done
  /\ run.projectionYears = 2
  /\ jsLt(Zero, MaxShortfall(run.yearlyExpenditures, run.startingBalance))
  /\ jsLt(Zero, LastBaselineBalance)
  /\ jsLt(projections.yearlyData[1].baselineBalance, Zero)

\* ---------------------------------------------------------------------
\* C24
\* ---------------------------------------------------------------------
\* the total of the expenditures that fall inside the horizon
TotalExpenditures == PrefixSum(run.yearlyExpenditures, run.projectionYears)

\* C24: the baseline contribution is >= 0, and it is 0 exactly when
\* startingBalance is at least the total of the expenditures inside the
\* horizon.
C24_BaselineNonNegative ==
  run.done =>
    /\ Leq(Zero, projections.fundingGoals.baseline)
    /\ projections.fundingGoals.baseline = Zero
         <=> Leq(TotalExpenditures, run.startingBalance)

\* the starting balance just covers a positive total: contribution 0; this
\* is a re-run after a negative contribution was selected
C24_Witness ==
  /\ run.done
  /\ ~effectPending
  /\ jsLt(Zero, TotalExpenditures)
  /\ TotalExpenditures = run.startingBalance
  /\ projections.fundingGoals.baseline = Zero
  /\ jsLt(financialData.annualContribution, Zero)

\* ---------------------------------------------------------------------
\* C28
\* ---------------------------------------------------------------------
\* the inventory without its j-th component
Without(comps, j) == SubSeq(comps, 1, j - 1) \o SubSeq(comps, j + 1, Len(comps))

\* a component that costs something and has more life left than its useful life
IsOverdated(component) ==
  /\ jsLt(component.usefulLife, component.remainingLife)
  /\ jsLt(Zero, component.replacementCost)

\* C28: with usefulLife > 0 and 0 <= remainingLife <= usefulLife for every
\* component the fully funded balance lies between 0 and the sum of the
\* replacement costs; a component with remainingLife > usefulLife > 0 (and a
\* cost) lowers the balance below that of the inventory without it.
C28_FullyFundedBounds ==
  run.done =>
    /\ ValidInventory(run.components) =>
         /\ Leq(Zero, run.fullyFundedBalance)
         /\ Leq(run.fullyFundedBalance,
                SumCostOver(run.components, DOMAIN run.components))
    /\ AllUsefulLivesPositive(run.components) =>
         \A j \in DOMAIN run.components :
           IsOverdated(run.components[j]) =>
             jsLt(run.fullyFundedBalance,
                  FullyFundedBalance(Without(run.components, j)))

\* a partly depreciated component next to one with more life left than its
\* useful life: the balance is negative
C28_Witness ==
  /\ run.done
  /\ Len(run.components) = 2
  /\ AllUsefulLivesPositive(run.components)
  /\ IsOverdated(run.components[2])
  /\ ~IsOverdated(run.components[1])
  /\ jsLt(Zero, FullyFundedBalance(Without(run.components, 2)))
  /\ jsLt(run.fullyFundedBalance, Zero)

\* ---------------------------------------------------------------------
\* FinancialAnalysis re-rendered by its parent with new props
\* ---------------------------------------------------------------------
\* the inventories the parent passes: none, one component due at once, one
\* component half way through its life
PropInventories ==
  {<<>>,
   <<[usefulLife |-> Int2Num(1), remainingLife |-> Zero,
      replacementCost |-> Int2Num(1)]>>,
   <<[usefulLife |-> Int2Num(2), remainingLife |-> Int2Num(1),
      replacementCost |-> Int2Num(2)]>>}

\* first render, as Init, on one of these inventories
InitProps ==
  /\ components \in PropInventories
  /\ startingBalance \in StartingBalances
  /\ annualContribution = Zero
  /\ projectionYears \in ProjectionYears
  /\ financialData = [startingBalance |-> startingBalance,
                      annualContribution |-> annualContribution,
                      selectedGoal |-> "baseline",
                      projectionYears |-> projectionYears]
  /\ projections = [yearlyData |-> <<>>,
                    fundingGoals |-> [baseline |-> Zero, threshold |-> Zero,
                                      fullyFunded |-> Zero]]
  /\ effectPending = TRUE
  /\ onUpdateFinancials = <<>>
  /\ run = NoRun
  /\ ReportInit
  /\ FormInit
  /\ ServiceInit
  /\ ControllerInit

\* the parent renders with a components array: a new reference, so the
\* [components, financialData] effect is scheduled
setComponents(comps) ==
  /\ ~effectPending
  /\ components' = comps
  /\ effectPending' = TRUE
  /\ UNCHANGED <<startingBalance, annualContribution, projectionYears,
                 financialData, projections, onUpdateFinancials, run>>
  /\ UNCHANGED exceptAnalysis

\* the parent renders with another startingBalance: useState keeps the value
\* of the first render and no dependency of the effect changes
setStartingBalance(balance) ==
  /\ ~effectPending
  /\ balance # startingBalance
  /\ startingBalance' = balance
  /\ UNCHANGED <<components, annualContribution, projectionYears, financialData,
                 projections, effectPending, onUpdateFinancials, run>>
  /\ UNCHANGED exceptAnalysis

\* the parent renders with another projectionYears: not a dependency of the
\* effect, so nothing is scheduled
setProjectionYears(years) ==
  /\ ~effectPending
  /\ years # projectionYears
  /\ projectionYears' = years
  /\ UNCHANGED <<components, startingBalance, annualContribution, financialData,
                 projections, effectPending, onUpdateFinancials, run>>
  /\ UNCHANGED exceptAnalysis

NextProps ==
  \/ calculateProjections
  \/ \E goal \in Goals : handleFundingGoalChange(goal)
  \/ \E comps \in PropInventories : setComponents(comps)
  \/ \E balance \in StartingBalances : setStartingBalance(balance)
  \/ \E years \in ProjectionYears : setProjectionYears(years)

SpecProps == InitProps /\ [][NextProps]_vars

\* ---------------------------------------------------------------------
\* C25
\* ---------------------------------------------------------------------
\* the financial parameters as the parent passes them now
CurrentInput == [startingBalance |-> startingBalance]

\* C25: once the pending effects have run, yearlyData and fundingGoals are
\* the engine's result for the current components, the current
\* startingBalance prop and the current projectionYears prop.
C25_ProjectionsTrackInputs ==
  (run.done /\ ~effectPending) =>
    LET p == Projection(components, CurrentInput, projectionYears)
    IN /\ projections.yearlyData = p.yearlyData
       /\ projections.fundingGoals = p.fundingGoals

\* ---------------------------------------------------------------------
\* C26
\* ---------------------------------------------------------------------
\* C26: once a funding goal has been selected, in every state without a
\* pending effect financialData.annualContribution is the contribution of the
\* selected goal in the projections shown.
C26_SelectedContributionConsistent ==
  (onUpdateFinancials # <<>> /\ ~effectPending) =>
    financialData.annualContribution =
      projections.fundingGoals[financialData.selectedGoal]

\* ---------------------------------------------------------------------
\* C27
\* ---------------------------------------------------------------------
\* the run that starts now was scheduled by a goal selection: the component
\* list is the one of the run before it
IsRunAfterSelection ==
  /\ IsProjectionRun
  /\ run.done
  /\ onUpdateFinancials # <<>>
  /\ components = run.components

\* C27: the run of the effect that a goal selection schedules stores the
\* yearlyData and fundingGoals that were shown before the selection, and
\* schedules no further effect.
C27_SelectionKeepsProjection ==
  [][IsRunAfterSelection =>
       /\ projections' = projections
       /\ ~effectPending']_vars

\* ---------------------------------------------------------------------
\* ReserveStudyGenerator: adding and removing components
\* ---------------------------------------------------------------------
\* bounds: the milliseconds the clock advances, and the components added
MaxClock == 2

MaxAdded == 3

\* what the user types: a name, and a number for the other fields
FormFields == {"name", "quantity", "useful_life", "remaining_life", "replacement_cost"}

FormValues(field) == IF field = "name" THEN {"", "Roof", "Pool"} ELSE {"", "1"}

\* parseFloat / parseInt of the text of a number input
ParseNumber(text) == IF text = "1" THEN Int2Num(1) ELSE NaN

\* time passes: Date.now() returns the next millisecond
tick ==
  /\ clock < MaxClock
  /\ clock' = clock + 1
  /\ UNCHANGED <<componentData, newComponent, errorMsg>>
  /\ UNCHANGED exceptForm

\* setNewComponent({...newComponent, [e.target.name]: e.target.value})
handleComponentChange(field, value) ==
  /\ newComponent[field] # value
  /\ newComponent' = [newComponent EXCEPT ![field] = value]
  /\ UNCHANGED <<componentData, errorMsg, clock>>
  /\ UNCHANGED exceptForm

\* click on 'Add Component': an empty required field is reported, otherwise
\* the form is appended with id Date.now() and cleared
addComponent ==
  /\ Len(componentData) < MaxAdded
  /\ IF \E field \in FormFields : newComponent[field] = ""
     THEN /\ errorMsg' = "Please fill in all required component fields"
          /\ UNCHANGED <<componentData, newComponent>>
     ELSE /\ componentData' =
               Append(componentData,
                      [id |-> clock,
                       name |-> newComponent.name,
                       quantity |-> ParseNumber(newComponent.quantity),
                       useful_life |-> ParseNumber(newComponent.useful_life),
                       remaining_life |-> ParseNumber(newComponent.remaining_life),
                       replacement_cost |-> ParseNumber(newComponent.replacement_cost)])
          /\ newComponent' = EmptyForm
          /\ errorMsg' = ""
  /\ UNCHANGED clock
  /\ UNCHANGED exceptForm

\* click on a row's remove button:
\* setComponentData(componentData.filter(comp => comp.id !== id))
removeComponent(id) ==
  /\ \E i \in 1..Len(componentData) : componentData[i].id = id
  /\ componentData' = SelectSeq(componentData, LAMBDA comp : comp.id # id)
  /\ UNCHANGED <<newComponent, errorMsg, clock>>
  /\ UNCHANGED exceptForm

InitForm ==
  /\ FormInit
  /\ ServiceInit
  /\ ControllerInit
  /\ AnalysisIdle
  /\ ReportInit

NextForm ==
  \/ tick
  \/ \E field \in FormFields : \E value \in FormValues(field) :
       handleComponentChange(field, value)
  \/ addComponent
  \/ \E id \in 0..MaxClock : removeComponent(id)

SpecForm == InitForm /\ [][NextForm]_vars

\* ---------------------------------------------------------------------
\* C22
\* ---------------------------------------------------------------------
\* C22: the ids in componentData are pairwise distinct, so that
\* removeComponent(id) removes exactly one component.
C22_UniqueIds ==
  \A i, j \in 1..Len(componentData) :
    i # j => componentData[i].id # componentData[j].id

\* ---------------------------------------------------------------------
\* ReportGenerationService.validateReportData (serviceIntegration.js)
\* ---------------------------------------------------------------------
\* required.filter(key => !data[key]) on the argument itself
RECURSIVE FilterMissingData(_, _, _)
FilterMissingData(data, required, j) ==
  IF j > Len(required) THEN <<>>
  ELSE IF jsNot(data[required[j]])
       THEN <<required[j]>> \o FilterMissingData(data, required, j + 1)
       ELSE FilterMissingData(data, required, j + 1)

validateProjectInfo(info) ==
  LET missing ==
        FilterMissing(info, <<"name", "address", "constructionDate", "buildingCount">>, 1)
  IN [throws |-> Len(missing) > 0, missing |-> missing]

\* Number(value) || 0; the numeric fields of an item hold a number or are absent
NumberOrZero(value) ==
  IF value.k \in {"fin", "pinf", "ninf"} /\ ~jsNot(value) THEN value ELSE Zero

\* throws 'Components must be an array', or returns the items with their
\* three numeric fields coerced
validateComponents(comps) ==
  IF comps.k # "arr" THEN [throws |-> TRUE, value |-> Undefined]
  ELSE [throws |-> FALSE,
        value |-> Arr([i \in 1..Len(comps.items) |->
                        Obj([comps.items[i].fields EXCEPT
                               !.replacementCost = NumberOrZero(@),
                               !.usefulLife = NumberOrZero(@),
                               !.remainingLife = NumberOrZero(@)])])]

\* what validateReportData threw: the message's prefix and the names joined
\* after it
Thrown(message, missing) ==
  [called |-> TRUE, threw |-> TRUE, message |-> message, missing |-> missing]

Returned(value) == [called |-> TRUE, threw |-> FALSE, value |-> value]

\* the object literal is evaluated in order: the first validator that throws
\* ends the call
validateReportData(data) ==
  LET missing == FilterMissingData(data, <<"projectInfo", "components", "financials">>, 1)
  IN IF Len(missing) > 0 THEN Thrown("Missing required data", missing)
     ELSE IF validateProjectInfo(data.projectInfo).throws
     THEN Thrown("Missing project info", validateProjectInfo(data.projectInfo).missing)
     ELSE IF validateComponents(data.components).throws
     THEN Thrown("Components must be an array", <<>>)
     ELSE IF validateFinancials(data.financials).throws
     THEN Thrown("Missing financial data", validateFinancials(data.financials).missing)
     ELSE Returned([projectInfo |-> data.projectInfo,
                    components |-> validateComponents(data.components).value,
                    financials |-> data.financials,
                    media |-> IF jsNot(data.media) THEN Arr(<<>>) ELSE data.media])

\* the arguments: each section present or not, components an array of at most
\* one item or an object, and up to MaxDefects required fields not filled in
ServiceSlots ==
  SlotsOf("propertyInfo", -1) \cup SlotsOf("components", 0) \cup SlotsOf("financials", -1)

InitService ==
  /\ \E hasProjectInfo, hasFinancials, hasMedia \in BOOLEAN :
       \E shape \in {"undefined", "object", "array"} :
         \E count \in {0, 1} :
           \E defects \in SubsetsUpTo(ServiceSlots, MaxDefects) :
             \E kinds \in [defects -> DefectKinds] :
               serviceData =
                 [projectInfo |-> IF hasProjectInfo
                                  THEN LoadedObject("propertyInfo", -1, defects, kinds)
                                  ELSE Undefined,
                  components |-> IF shape = "array"
                                 THEN Arr([i \in 1..count |->
                                             LoadedObject("components", i - 1, defects, kinds)])
                                 ELSE IF shape = "object"
                                 THEN LoadedObject("components", 0, defects, kinds)
                                 ELSE Undefined,
                  financials |-> IF hasFinancials
                                 THEN LoadedObject("financials", -1, defects, kinds)
                                 ELSE Undefined,
                  media |-> IF hasMedia THEN Arr(<<>>) ELSE Undefined]
  /\ serviceResult = NotCalled
  /\ AnalysisIdle
  /\ ReportInit
  /\ FormInit
  /\ ControllerInit

\* a call of validateReportData with the argument at hand
validateReportDataCall ==
  /\ ~serviceResult.called
  /\ serviceResult' = validateReportData(serviceData)
  /\ UNCHANGED serviceData
  /\ UNCHANGED exceptService

NextService == validateReportDataCall

SpecService == InitService /\ [][NextService]_vars

\* ---------------------------------------------------------------------
\* C21
\* ---------------------------------------------------------------------
\* C21: for an argument that has all three sections, the error
\* validateReportData raises names every required field that is missing in
\* projectInfo and every one that is missing in financials, not only those
\* of the section checked first.
C21_AllProblemsAtOnce ==
  (/\ serviceResult.called
   /\ serviceResult.threw
   /\ serviceData.projectInfo.k = "obj"
   /\ serviceData.components.k = "arr"
   /\ serviceData.financials.k = "obj") =>
    \A section \in {"projectInfo", "financials"} :
      \A field \in DOMAIN serviceData[section].fields :
        jsNot(serviceData[section].fields[field]) =>
          Includes(serviceResult.missing, field)

\* ---------------------------------------------------------------------
\* C29
\* ---------------------------------------------------------------------
\* a step that starts a run of generateReport past its validation, one that
\* ends it, and one in which a generator is called
IsRunStart == generation.stage = "idle" /\ generation'.stage # "idle"

IsRunEnd == generation.stage # "idle" /\ generation'.stage = "idle"

IsGeneratorCall == invoked' # invoked

\* the stages that can follow a stage: word, excel, photos, in this order
LaterStages(stage) ==
  IF stage = "word" THEN {"word", "excel", "idle"}
  ELSE IF stage = "excel" THEN {"excel", "photos", "idle"}
  ELSE IF stage = "photos" THEN {"photos", "idle"}
  ELSE {"idle", "word"}

\* C29: isGenerating is true exactly while a run that passed validation is in
\* flight: it is set, with error cleared, before the first generator is
\* called, and it is false once the run has ended; at the end error is
\* non-null exactly when the run was ended by a generator that threw (the run
\* ends before the photo stage is over); a generator is called only in its own
\* stage of a run whose selection includes it, and the stages follow the order
\* word, excel, photos, so that no format after a failed one is generated.
C29_GeneratingFlag ==
  [][/\ isGenerating <=> generation.stage # "idle"
     /\ generation'.stage \in LaterStages(generation.stage)
     /\ IsRunStart => /\ isGenerating'
                      /\ error' = NoError
                      /\ ~IsGeneratorCall
     /\ IsGeneratorCall => /\ isGenerating
                           /\ invoked' = invoked \cup {generation.stage}
                           /\ Includes(generation.reportFormat, generation.stage)
     /\ IsRunEnd => /\ ~isGenerating'
                    /\ error' # NoError <=> generation.stage # "photos"
                    /\ error' # NoError => error' = GeneratorError]_vars

\* the word report threw in a run with all three formats selected: the flag is
\* down again, the error is shown, and neither later format was generated
C29_Witness ==
  /\ ~isGenerating
  /\ error = GeneratorError
  /\ invoked = {"word"}
  /\ Len(reportFormat) = 3

\* ---------------------------------------------------------------------
\* ReportController: format selection and generateReport
\* ---------------------------------------------------------------------
\* Object.keys(reportFormats)
ControllerFormats == {"excel", "word", "powerpoint", "pdf", "video"}

\* selectedFormats.indexOf(format)
IndexOf(array, key) ==
  IF Includes(array, key)
  THEN (CHOOSE i \in 1..Len(array) :
          array[i] = key /\ \A j \in 1..(i - 1) : array[j] # key) - 1
  ELSE -1

\* the switch of generateReport: generateExcelReport is the one generator the
\* file defines (it relies on XLSX and the DOM, and returns or throws); the
\* names called for the other formats are bound nowhere, so calling them
\* throws a ReferenceError
GeneratorOutcomes(format) ==
  IF format = "excel" THEN {"returns", "throws"} ELSE {"throws"}

GeneratorMessage(format) ==
  IF format = "excel" THEN "generateExcelReport failed"
  ELSE IF format = "word" THEN "generateWordReport is not defined"
  ELSE IF format = "powerpoint" THEN "generatePowerPointReport is not defined"
  ELSE IF format = "pdf" THEN "generatePDFReport is not defined"
  ELSE "generateVideoPresentation is not defined"

\* updateProgress is neither defined nor imported in the file: the call throws
\* a ReferenceError before anything is set
updateProgress(value) ==
  [throws |-> TRUE, message |-> "updateProgress is not defined", progress |-> value]

\* click on a format card: setSelectedFormats(prev => ...)
controllerToggleFormat(format) ==
  /\ selectedFormats' = IF Includes(selectedFormats, format)
                        THEN Filter(selectedFormats, format)
                        ELSE Append(selectedFormats, format)
  /\ UNCHANGED <<status, progress, controllerError, controllerRun>>
  /\ UNCHANGED exceptController

\* click on 'Generate Selected Reports' (disabled while generating or with no
\* format selected): generateReport up to its first await
controllerGenerateReport ==
  /\ status # "generating"
  /\ Len(selectedFormats) # 0
  /\ status' = "generating"
  /\ progress' = Zero
  /\ controllerError' = NoControllerError
  /\ controllerRun' = [active |-> TRUE, formats |-> selectedFormats, index |-> 1,
                       threw |-> FALSE]
  /\ UNCHANGED selectedFormats
  /\ UNCHANGED exceptController

\* catch (err) { setError(err.message); setStatus('error'); }
\* generatorThrew records whether err came from a generator
ControllerCaught(message, generatorThrew) ==
  /\ controllerError' = ControllerError(message)
  /\ status' = "error"
  /\ controllerRun' = [NoControllerRun EXCEPT !.threw = generatorThrew]
  /\ UNCHANGED progress

\* one iteration of `for (const format of selectedFormats)`: the generator of
\* the format, then updateProgress; after the last iteration
\* setStatus('complete') and setProgress(100)
controllerLoopStep ==
  /\ controllerRun.active
  /\ LET formats == controllerRun.formats
         format == formats[controllerRun.index]
         value == jsMul(Int2Num(IndexOf(formats, format) + 1),
                        jsDiv(Int2Num(100), Int2Num(Len(formats))))
     IN \E outcome \in GeneratorOutcomes(format) :
          IF outcome = "throws"
          THEN ControllerCaught(GeneratorMessage(format), TRUE)
          ELSE IF updateProgress(value).throws
          THEN ControllerCaught(updateProgress(value).message, FALSE)
          ELSE IF controllerRun.index < Len(formats)
          THEN /\ progress' = updateProgress(value).progress
               /\ controllerRun' = [controllerRun EXCEPT !.index = @ + 1]
               /\ UNCHANGED <<status, controllerError>>
          ELSE /\ status' = "complete"
               /\ progress' = Int2Num(100)
               /\ controllerRun' = NoControllerRun
               /\ UNCHANGED controllerError
  /\ UNCHANGED selectedFormats
  /\ UNCHANGED exceptController

InitController ==
  /\ ControllerInit
  /\ AnalysisIdle
  /\ ReportInit
  /\ FormInit
  /\ ServiceInit

NextController ==
  \/ \E format \in ControllerFormats : controllerToggleFormat(format)
  \/ controllerGenerateReport
  \/ controllerLoopStep

SpecController == InitController /\ [][NextController]_vars

\* ---------------------------------------------------------------------
\* C30
\* ---------------------------------------------------------------------
\* C30: status is 'generating' exactly while a generateReport call is in
\* flight, and a call in which no generator threw ends in status 'complete'
\* with progress 100 and error null.
C30_SuccessCompletes ==
  /\ controllerRun.active <=> status = "generating"
  /\ (status \in {"complete", "error"} /\ ~controllerRun.threw) =>
       /\ status = "complete"
       /\ progress = Int2Num(100)
       /\ controllerError.isNull

====
